---------------------------- MODULE Spec2Model ----------------------------
(***************************************************************************)
(* A model of patisson_appLauncher/printX.py: the Block renderer and the   *)
(* block_decorator wrapper; and of the launchers of base_app_launcher.py   *)
(* and fastapi_app_launcher.py, whose methods run inside Blocks.           *)
(*                                                                         *)
(* A Python str is modelled as a sequence of one-character strings.  An    *)
(* ANSI escape sequence (a colorama style code, the cursor-up sequence     *)
(* "\033[F") is one token of such a sequence, named by its colorama name,  *)
(* so that the visible characters of a printed line are its tokens of      *)
(* length one.  The standard output stream of one invocation is the        *)
(* sequence of the lines handed to print(); the log of an invocation       *)
(* interleaves those prints with the calls the Block makes.                *)
(***************************************************************************)
EXTENDS Integers, Sequences, FiniteSets, TLC

(***************************************************************************)
(* Bounds of the model.                                                    *)
(***************************************************************************)
\* A text is a sequence of items; an item weighs 1 + the length of its
\* string.  Texts of total weight up to MaxText are explored.
MaxText == 3
\* Explicit widths range over -1 .. MaxWidth, terminal widths over 1 .. MaxWidth.
MaxWidth == 4

(***************************************************************************)
(* Characters and escape tokens.                                           *)
(***************************************************************************)
RESET_ALL == "RESET_ALL"
BRIGHT == "BRIGHT"
DIM == "DIM"
GREEN == "GREEN"
RED == "RED"
\* "\033[F": cursor to the beginning of the previous line
CUU == "CUU"

Escapes == {RESET_ALL, BRIGHT, DIM, GREEN, RED, CUU}

IsSpace(c) == c = " "
IsHyphen(c) == c = "-"

DigitChars == <<"0", "1", "2", "3", "4", "5", "6", "7", "8", "9">>

IsDigit(c) == \E d \in 1..10 : DigitChars[d] = c

\* letter = [^\d\W]: of the ASCII characters, the letters and the underscore
IsLetter(c) ==
    c \in {"a", "b", "c", "d", "e", "f", "g", "h", "i", "j", "k", "l", "m", "n",
           "o", "p", "q", "r", "s", "t", "u", "v", "w", "x", "y", "z",
           "A", "B", "C", "D", "E", "F", "G", "H", "I", "J", "K", "L", "M", "N",
           "O", "P", "Q", "R", "S", "T", "U", "V", "W", "X", "Y", "Z", "_"}
\* \w
IsWord(c) == IsLetter(c) \/ IsDigit(c)
\* word_punct = [\w!"'&.,?]
IsWordPunct(c) == IsWord(c) \/ c \in {"!", "\"", "'", "&", ".", ",", "?"}

Max(a, b) == IF a >= b THEN a ELSE b
Min(a, b) == IF a <= b THEN a ELSE b

\* c * n for a one-character str c: the empty str when n <= 0
Repeat(c, n) == [i \in 1..Max(n, 0) |-> c]

\* s[lo:hi] with 0-based, end-exclusive Python indices 0 <= lo, hi
Slice(s, lo, hi) == SubSeq(s, lo + 1, Min(hi, Len(s)))

\* ''.join(seq) of a sequence of strs
RECURSIVE Join(_)
Join(ss) == IF ss = <<>> THEN <<>> ELSE Head(ss) \o Join(Tail(ss))

\* s.strip() == '' on the modelled alphabet
IsBlank(s) == \A i \in 1..Len(s) : IsSpace(s[i])

\* str.center(width) with the fill character ' ' (CPython's pad():
\* left = marg / 2 + (marg & width & 1))
center(s, width) ==
    IF width <= Len(s) THEN s
    ELSE LET marg == width - Len(s)
             left == (marg \div 2) + (IF marg % 2 = 1 /\ width % 2 = 1 THEN 1 ELSE 0)
         IN  Repeat(" ", left) \o s \o Repeat(" ", marg - left)

\* int(x / 2): true division, then truncation towards zero
IntHalf(x) == IF x >= 0 THEN x \div 2 ELSE 0 - ((0 - x) \div 2)

(***************************************************************************)
(* textwrap.fill(text, width=w).splitlines(), as the body of a Block       *)
(* calls it, with TextWrapper's defaults (expand_tabs, replace_whitespace, *)
(* drop_whitespace, break_long_words, break_on_hyphens; no indent, no      *)
(* max_lines), on strs of ASCII characters with ' ' as the only whitespace.*)
(***************************************************************************)
\* s[i] for 1-based i, and a character of no class outside the str
At(s, i) == IF 1 <= i /\ i <= Len(s) THEN s[i] ELSE ""

\* the position after the maximal run of spaces (of hyphens) that starts at i
RECURSIVE SpaceRunEnd(_, _)
SpaceRunEnd(s, i) == IF IsSpace(At(s, i)) THEN SpaceRunEnd(s, i + 1) ELSE i

RECURSIVE HyphenRunEnd(_, _)
HyphenRunEnd(s, i) == IF IsHyphen(At(s, i)) THEN HyphenRunEnd(s, i + 1) ELSE i

\* wordsep_re, "hyphenated word": the hyphen at position h ends a chunk
\*   -(?: (?<=lt{2}-) | (?<=lt-lt-)) (?= lt -? lt)
HyphenBreak(s, h) ==
    /\ IsHyphen(At(s, h))
    /\ \/ IsLetter(At(s, h - 2)) /\ IsLetter(At(s, h - 1))
       \/ IsLetter(At(s, h - 3)) /\ IsHyphen(At(s, h - 2)) /\ IsLetter(At(s, h - 1))
    /\ IsLetter(At(s, h + 1))
    /\ \/ IsLetter(At(s, h + 2))
       \/ IsHyphen(At(s, h + 2)) /\ IsLetter(At(s, h + 3))

\* wordsep_re, "em-dash": (?<=wp) before position p, and -{2,}\w from p on
EmDashAt(s, p) ==
    /\ IsWordPunct(At(s, p - 1))
    /\ HyphenRunEnd(s, p) >= p + 2
    /\ IsWord(At(s, HyphenRunEnd(s, p)))

\* wordsep_re, "word, possibly hyphenated": nws+? followed by the first of
\* its three endings; the position of the last character of the chunk that
\* starts at i, having consumed k characters
RECURSIVE WordEnd(_, _, _)
WordEnd(s, i, k) ==
    LET p == i + k
    IN  IF HyphenBreak(s, p) THEN p
        ELSE IF p > Len(s) \/ IsSpace(s[p]) THEN p - 1
        ELSE IF EmDashAt(s, p) THEN p - 1
        ELSE WordEnd(s, i, k + 1)

\* the position of the last character of the chunk that starts at i
ChunkEnd(s, i) ==
    IF IsSpace(s[i]) THEN SpaceRunEnd(s, i) - 1
    ELSE IF EmDashAt(s, i) THEN HyphenRunEnd(s, i) - 1
    ELSE WordEnd(s, i, 1)

\* TextWrapper._split: the chunks of the text from position i on
RECURSIVE SplitFrom(_, _)
SplitFrom(s, i) ==
    IF i > Len(s) THEN <<>>
    ELSE LET e == ChunkEnd(s, i)
         IN  <<SubSeq(s, i, e)>> \o SplitFrom(s, e + 1)

Split(s) == SplitFrom(s, 1)

\* the inner loop of _wrap_chunks: how many leading chunks fit the line
RECURSIVE Fit(_, _, _)
Fit(chunks, cur_len, width) ==
    IF chunks # <<>> /\ cur_len + Len(Head(chunks)) <= width
    THEN 1 + Fit(Tail(chunks), cur_len + Len(Head(chunks)), width)
    ELSE 0

\* chunk.rfind('-', 0, end): the 0-based index of the last hyphen of
\* chunk[0:end], or -1
RECURSIVE RFindHyphen(_, _)
RFindHyphen(chunk, end) ==
    IF end <= 0 THEN 0 - 1
    ELSE IF end <= Len(chunk) /\ IsHyphen(chunk[end]) THEN end - 1
    ELSE RFindHyphen(chunk, end - 1)

\* TextWrapper._handle_long_word with break_long_words: how many characters
\* of the too-long chunk go on the current line
LongWordCut(chunk, cur_len, width) ==
    LET space_left == IF width < 1 THEN 1 ELSE width - cur_len
        hyphen == RFindHyphen(chunk, space_left)
    IN  IF /\ Len(chunk) > space_left
           /\ hyphen > 0
           /\ \E j \in 1..hyphen : ~IsHyphen(chunk[j])
        THEN hyphen + 1
        ELSE space_left

\* TextWrapper._wrap_chunks for width > 0: the lines made of the chunks,
\* `lines` being the lines made so far.  One pass of its outer loop is the
\* chain WrapChunks, WrapTaken, WrapLong, WrapLine.
RECURSIVE WrapChunks(_, _, _)

\* if cur_line: lines.append(''.join(cur_line)), after a trailing
\* whitespace chunk of cur_line is dropped; then the next pass
WrapLine(cur_line, left, width, lines) ==
    WrapChunks(left, width,
        IF cur_line # <<>> /\ IsBlank(cur_line[Len(cur_line)])
        THEN IF Len(cur_line) > 1
             THEN Append(lines, Join(SubSeq(cur_line, 1, Len(cur_line) - 1)))
             ELSE lines
        ELSE IF cur_line # <<>> THEN Append(lines, Join(cur_line)) ELSE lines)

\* _handle_long_word puts the first `cut` characters of the chunk that is
\* longer than the width on the current line
WrapCut(taken, rest, cut, width, lines) ==
    WrapLine(Append(taken, Slice(Head(rest), 0, cut)),
             <<Slice(Head(rest), cut, Len(Head(rest)))>> \o Tail(rest),
             width, lines)

\* if chunks and len(chunks[-1]) > width: self._handle_long_word(...)
WrapLong(taken, rest, width, lines) ==
    IF rest # <<>> /\ Len(Head(rest)) > width
    THEN WrapCut(taken, rest, LongWordCut(Head(rest), Len(Join(taken)), width),
                 width, lines)
    ELSE WrapLine(taken, rest, width, lines)

\* the first n chunks fit the line
WrapTaken(chunks, n, width, lines) ==
    WrapLong(SubSeq(chunks, 1, n), SubSeq(chunks, n + 1, Len(chunks)), width, lines)

\* a whitespace chunk at the start of a line that is not the first is dropped
WrapChunks(chunks, width, lines) ==
    IF chunks = <<>> THEN lines
    ELSE IF IsBlank(Head(chunks)) /\ lines # <<>>
         THEN WrapTaken(Tail(chunks), Fit(Tail(chunks), 0, width), width, lines)
         ELSE WrapTaken(chunks, Fit(chunks, 0, width), width, lines)

\* textwrap.fill(text, width=width).splitlines() for width > 0; fill raises
\* ValueError for width <= 0 (see WrapRaises)
Wrap(text, width) == WrapChunks(Split(text), width, <<>>)

WrapRaises(width) == width <= 0

(***************************************************************************)
(* Values of the program.                                                  *)
(***************************************************************************)
\* Optional[T]: None, or a value
None == <<>>
Some(x) == <<x>>

BlockTypes == {"HEAD", "BODY", "TAIL"}

\* The callables handed to a Block as func: printX.none, a function
\* f(a, b) = a + b, and a function that raises.  The zero-argument
\* callables of (string, action) items: one that returns, one that raises.
\* (The callables of the launchers, named for the way they end, are listed
\* with the launchers: PutFuncs, SetupFuncs, ServerFuncs.)
Funcs == {"none", "add", "fail"}
ItemActs == {"ok", "boom"}

\* *args and **kwargs of a call; kwargs is a set of <<name, value>> pairs
NoArgs == [args |-> <<>>, kwargs |-> {}]
CallArgs == {NoArgs,
             [args |-> <<2, 3>>, kwargs |-> {}],
             [args |-> <<2>>, kwargs |-> {<<"b", 4>>}]}

\* How a call ends: it returns a value (None, or Some(v), v being an int or
\* a tuple) or raises
Return(v) == [kind |-> "return", value |-> v, err |-> ""]
Raise(e) == [kind |-> "raise", value |-> None, err |-> e]

\* def none(*args, **kwargs) -> None: return
none(a) == Return(None)

\* def f(a, b): return a + b, bound the way Python binds a call
add(a) ==
    LET names == {p[1] : p \in a.kwargs}
        kw(n) == (CHOOSE p \in a.kwargs : p[1] = n)[2]
        npos == Len(a.args)
    IN  IF \/ npos > 2
           \/ names \ {"a", "b"} # {}
           \/ (npos >= 1 /\ "a" \in names) \/ (npos >= 2 /\ "b" \in names)
           \/ (npos < 1 /\ "a" \notin names) \/ (npos < 2 /\ "b" \notin names)
        THEN Raise("TypeError")
        ELSE Return(Some((IF npos >= 1 THEN a.args[1] ELSE kw("a"))
                         + (IF npos >= 2 THEN a.args[2] ELSE kw("b"))))

\* func(*args, **kwargs)
Apply(func, a) ==
    CASE func = "none" -> none(a)
      [] func = "add" -> add(a)
      [] func = "fail" -> Raise("RuntimeError")
      [] func = "ok" -> Return(None)
      [] func = "boom" -> Raise("ItemError")
      [] func = "put_200" -> Return(Some(200))
      [] func = "put_201" -> Return(Some(201))
      [] func = "put_500" -> Return(Some(500))
      [] func = "put_error" -> Raise("ConnectError")
      [] func = "setup" -> Return(None)
      [] func = "setup_fail" -> Raise("SetupError")
      [] func = "setup_noimport" -> Raise("ModuleNotFoundError")
      [] func = "uvicorn" -> Return(None)
      [] func = "uvicorn_oserror" -> Raise("OSError")
      [] func = "uvicorn_noimport" -> Raise("ModuleNotFoundError")
      [] func = "gunicorn" -> Return(None)
      [] func = "gunicorn_notfound" -> Raise("FileNotFoundError")

\* An item of a Block's text: a str, or a (str, callable) pair
StrItem(s) == [kind |-> "str", s |-> s, f |-> ""]
PairItem(s, f) == [kind |-> "pair", s |-> s, f |-> f]

(***************************************************************************)
(* The log of one invocation: what was printed and what was called, in     *)
(* order.                                                                  *)
(***************************************************************************)
\* print(s): the line s goes to the standard output
PrintEv(s) == [ev |-> "print", s |-> s, idx |-> 0, args |-> NoArgs]
\* self.func(*args, **kwargs) is called
FuncEv(a) == [ev |-> "func", s |-> <<>>, idx |-> 0, args |-> a]
\* text_[1]() is called, text_ being the idx-th item of the text
ItemEv(i) == [ev |-> "item", s |-> <<>>, idx |-> i, args |-> NoArgs]

\* The statements Block.__call__ executes, in order: print(s), the call
\* textwrap.fill of the idx-th item, the call text_[1]() of the idx-th item,
\* and result = self.func(*args, **kwargs)
PrintStep(s) == [op |-> "print", s |-> s, idx |-> 0]
FillStep(i) == [op |-> "fill", s |-> <<>>, idx |-> i]
ItemStep(i) == [op |-> "item", s |-> <<>>, idx |-> i]
FuncStep == [op |-> "func", s |-> <<>>, idx |-> 0]

\* seq[0] + seq[1] + ... for a sequence of sequences
RECURSIVE Flatten(_)
Flatten(ss) == IF ss = <<>> THEN <<>> ELSE Head(ss) \o Flatten(Tail(ss))

(***************************************************************************)
(* class Block                                                             *)
(***************************************************************************)
\* Block.get_styles_by_block_type
get_styles_by_block_type(block_type) ==
    CASE block_type = "HEAD" -> <<BRIGHT>>
      [] block_type = "BODY" -> <<>>
      [] block_type = "TAIL" -> <<BRIGHT>>

\* Block.__init__; columns is shutil.get_terminal_size().columns
Block_init(text, width, block_type, styles, func, columns) ==
    [func |-> func,
     text |-> text,
     width |-> IF width # None THEN width[1] ELSE columns,
     styles |-> IF styles # None THEN styles[1]
                ELSE get_styles_by_block_type(block_type),
     block_type |-> block_type]

\* Block.get_vline
get_vline(self) == <<RESET_ALL>> \o self.styles \o <<"|">> \o <<RESET_ALL>>

\* get_hline, were the two edge characters not taken off the width
get_hline_wide(width, edge_sym) == edge_sym \o Repeat("-", width) \o edge_sym

\* Block.get_hline
get_hline(width, edge_sym) == edge_sym \o Repeat("-", width - 2) \o edge_sym

success == <<"s", "u", "c", "c", "e", "s", "s">>

\* Block.get_success_str with the default text
get_success_str(width) ==
    <<RESET_ALL, BRIGHT, GREEN>> \o center(success, width - 2) \o <<RESET_ALL>>

\* the line printed for one wrapped line of a str item
StrLine(self, line) ==
    get_vline(self) \o self.styles \o center(line, self.width - 2) \o get_vline(self)

\* the lines printed for one wrapped line of a (str, callable) item
PairLine(self, line) ==
    get_vline(self) \o self.styles \o <<DIM>> \o center(line, self.width - 2)
        \o get_vline(self)

PairSuccess(self) ==
    self.styles \o get_vline(self) \o get_success_str(self.width) \o get_vline(self)

PairSeparator(self) ==
    get_vline(self) \o self.styles \o <<DIM>>
        \o center(<<"|">> \o Repeat("-", IntHalf(self.width - 4)) \o <<"|">>,
                  self.width - 2)
        \o get_vline(self)

\* body(), one item: textwrap.fill, then for each wrapped line the print
\* of a str item, or the print, the call text_[1](), the cursor-up and the
\* prints of the success line and of the separator of a (str, callable) item
LineSteps(self, i, line) ==
    IF self.text[i].kind = "str"
    THEN <<PrintStep(StrLine(self, line))>>
    ELSE <<PrintStep(PairLine(self, line)),
           ItemStep(i),
           PrintStep(<<CUU>>),
           PrintStep(PairSuccess(self)),
           PrintStep(PairSeparator(self))>>

LinesSteps(self, i, lines) ==
    Flatten([k \in 1..Len(lines) |-> LineSteps(self, i, lines[k])])

ItemSteps(self, i) ==
    IF WrapRaises(self.width) THEN <<FillStep(i)>>
    ELSE <<FillStep(i)>> \o LinesSteps(self, i, Wrap(self.text[i].s, self.width))

\* body, were an empty text printed as one empty line
body_blank(self) ==
    IF self.text = <<>> THEN <<PrintStep(StrLine(self, <<>>))>>
    ELSE Flatten([i \in 1..Len(self.text) |-> ItemSteps(self, i)])

\* body(): the loop over self.text
body(self) == Flatten([i \in 1..Len(self.text) |-> ItemSteps(self, i)])

\* HeadSteps, were self.func called before the bottom border is printed
HeadSteps_early(self) ==
    <<PrintStep(self.styles \o get_hline(self.width, <<"+">>))>>
        \o body(self)
        \o <<FuncStep,
             PrintStep(self.styles \o get_hline(self.width, <<"+">>))>>

\* BodySteps, were self.func called before the first closing border is
\* printed
BodySteps_early(self) ==
    body(self)
        \o <<FuncStep,
             PrintStep(self.styles \o get_hline(self.width, get_vline(self))),
             PrintStep(<<CUU, CUU>>),
             PrintStep(self.styles \o get_vline(self) \o get_success_str(self.width)
                           \o get_vline(self)),
             PrintStep(self.styles \o get_hline(self.width, get_vline(self)))>>

\* The three branches of Block.__call__
HeadSteps(self) ==
    <<PrintStep(self.styles \o get_hline(self.width, <<"+">>))>>
        \o body(self)
        \o <<PrintStep(self.styles \o get_hline(self.width, <<"+">>)),
             FuncStep>>

TailSteps(self) ==
    <<PrintStep(<<CUU, CUU>>),
      PrintStep(self.styles \o get_hline(self.width, <<"+">>))>>
        \o body(self)
        \o <<PrintStep(self.styles \o get_hline(self.width, <<"+">>)),
             FuncStep>>

BodySteps(self) ==
    body(self)
        \o <<PrintStep(self.styles \o get_hline(self.width, get_vline(self))),
             FuncStep,
             PrintStep(<<CUU, CUU>>),
             PrintStep(self.styles \o get_vline(self) \o get_success_str(self.width)
                           \o get_vline(self)),
             PrintStep(self.styles \o get_hline(self.width, get_vline(self)))>>

Steps(self) ==
    CASE self.block_type = "HEAD" -> HeadSteps(self)
      [] self.block_type = "TAIL" -> TailSteps(self)
      [] OTHER -> BodySteps(self)

\* A run: the log so far, the exception that ended it ("" while it runs),
\* and the value of the local variable `result`
Run0 == [log |-> <<>>, exc |-> "", result |-> Return(None)]

\* what a call does to the run: it is logged, its exception ends the run
Called(r, e, res) ==
    [log |-> Append(r.log, e),
     exc |-> IF res.kind = "raise" THEN res.err ELSE "",
     result |-> r.result]

\* Step, were the exception of the callable of an item caught
Step_swallow(self, a, st, r) ==
    CASE st.op = "print" -> [r EXCEPT !.log = Append(@, PrintEv(st.s))]
      [] st.op = "fill" ->
            IF WrapRaises(self.width) THEN [r EXCEPT !.exc = "ValueError"] ELSE r
      [] st.op = "item" -> [r EXCEPT !.log = Append(@, ItemEv(st.idx))]
      [] st.op = "func" ->
            [Called(r, FuncEv(a), Apply(self.func, a))
                EXCEPT !.result = Apply(self.func, a)]

\* one statement
Step(self, a, st, r) ==
    CASE st.op = "print" -> [r EXCEPT !.log = Append(@, PrintEv(st.s))]
      [] st.op = "fill" ->
            IF WrapRaises(self.width) THEN [r EXCEPT !.exc = "ValueError"] ELSE r
      [] st.op = "item" ->
            Called(r, ItemEv(st.idx), Apply(self.text[st.idx].f, NoArgs))
      [] st.op = "func" ->
            [Called(r, FuncEv(a), Apply(self.func, a))
                EXCEPT !.result = Apply(self.func, a)]

\* Exec, were the prints that follow a call made in a finally clause
RECURSIVE Exec_finally(_, _, _, _)
Exec_finally(self, a, steps, r) ==
    IF steps = <<>> THEN r
    ELSE Exec_finally(self, a, Tail(steps),
                      IF r.exc # "" /\ Head(steps).op # "print" THEN r
                      ELSE Step(self, a, Head(steps), r))

\* the statements in order, up to the first exception
RECURSIVE Exec(_, _, _, _)
Exec(self, a, steps, r) ==
    IF steps = <<>> \/ r.exc # "" THEN r
    ELSE Exec(self, a, Tail(steps), Step(self, a, Head(steps), r))

\* Block.__call__(*args, **kwargs): the Block after the call, the log of the
\* call, and how it ends: it returns `result`, or the exception that ended
\* the run propagates
\* Returned, were `return result` left out
Returned_none(self, r) ==
    [self |-> self,
     log |-> r.log,
     outcome |-> IF r.exc # "" THEN Raise(r.exc) ELSE Return(None)]

\* Returned, were the text consumed while it is printed
Returned_consumed(self, r) ==
    [self |-> [self EXCEPT !.text = <<>>],
     log |-> r.log,
     outcome |-> IF r.exc # "" THEN Raise(r.exc) ELSE r.result]

Returned(self, r) ==
    [self |-> self,
     log |-> r.log,
     outcome |-> IF r.exc # "" THEN Raise(r.exc) ELSE r.result]

Block_call(self, a) == Returned(self, Exec(self, a, Steps(self), Run0))

(***************************************************************************)
(* block_decorator                                                         *)
(***************************************************************************)
\* block_decorator(text, block_type, styles)(func): the closure `wrapper`
block_decorator(text, block_type, styles, func) ==
    [func |-> func, text |-> text, block_type |-> block_type, styles |-> styles]

\* wrapper(*args, **kwargs): the Block it constructs
wrapper_block(w, columns) ==
    Block_init(w.text, None, w.block_type, w.styles, w.func, columns)

\* wrapper, were the arguments not forwarded: return block()
wrapper_noargs(w, a, columns) == Block_call(wrapper_block(w, columns), NoArgs)

\* wrapper(*args, **kwargs): return block(*args, **kwargs)
wrapper(w, a, columns) == Block_call(wrapper_block(w, columns), a)

(***************************************************************************)
(* The inputs explored.                                                    *)
(***************************************************************************)
Alphabet == {"a", " "}

Strs(n) == [1..n -> Alphabet]

\* the items whose str has n characters
Items(n) ==
    {StrItem(s) : s \in Strs(n)} \cup {PairItem(s, f) : s \in Strs(n), f \in ItemActs}

\* the texts of total weight n, an item weighing 1 + the length of its str
RECURSIVE TextsOfWeight(_)
TextsOfWeight(n) ==
    IF n = 0 THEN {<<>>}
    ELSE UNION {{<<it>> \o t : it \in Items(w - 1), t \in TextsOfWeight(n - w)} :
                w \in 1..n}

Texts == UNION {TextsOfWeight(n) : n \in 0..MaxText}

\* the texts that are a Sequence[str]
StrTexts == {t \in Texts : \A i \in 1..Len(t) : t[i].kind = "str"}

\* width=: None, or an int; the code accepts any int
Widths == {None} \cup {Some(w) : w \in (0 - 1)..MaxWidth}
\* shutil.get_terminal_size().columns is positive
Columns == 1..MaxWidth
\* styles=: None, or a str of style codes
StyleArgs == {None, Some(<<RED>>)}

(***************************************************************************)
(* The state machine: a Block is constructed and then called any number of *)
(* times, or a function is decorated and then called any number of times.  *)
(***************************************************************************)
VARIABLES
    pc,       \* "start", "ready" (constructed or decorated), "done" (called
              \* once), "again" (called more than once); "failed" (the
              \* construction of a launcher raised)
    block,    \* the Block constructed last: by the caller, or by wrapper
    wrapped,  \* the closure block_decorator made, if a function was decorated
    args,     \* *args, **kwargs of the last call
    log,      \* what the last call printed and called, in order
    outcome,  \* how the last call ended
    launcher, \* the launcher constructed, if one was (base_app_launcher)
    world     \* what the launcher did to its socket and to the network, in
              \* order, since its construction began

vars == <<pc, block, wrapped, args, log, outcome, launcher, world>>

NoBlock == [func |-> "", text |-> <<>>, width |-> 0, styles |-> <<>>, block_type |-> ""]
NoWrapped == [func |-> "", text |-> <<>>, block_type |-> "", styles |-> None]
NoLauncher ==
    [service_name |-> <<>>, host |-> <<>>, app_port |-> None, socket_ |-> "",
     port |-> 0, health_path |-> None, last |-> ""]

Init ==
    /\ pc = "start"
    /\ block = NoBlock
    /\ wrapped = NoWrapped
    /\ args = NoArgs
    /\ log = <<>>
    /\ outcome = Return(None)
    /\ launcher = NoLauncher
    /\ world = <<>>

\* block = Block(text, width, block_type, styles, func)
Construct ==
    /\ pc = "start"
    /\ \E text \in Texts, width \in Widths, block_type \in BlockTypes,
          styles \in StyleArgs, func \in Funcs, columns \in Columns :
          block' = Block_init(text, width, block_type, styles, func, columns)
    /\ pc' = "ready"
    /\ UNCHANGED <<wrapped, args, log, outcome, launcher, world>>

\* wrapped = block_decorator(text, block_type, styles)(func); the text of
\* a decorator is a Sequence[str]
Decorate ==
    /\ pc = "start"
    /\ \E text \in StrTexts, block_type \in BlockTypes, styles \in StyleArgs,
          func \in Funcs :
          wrapped' = block_decorator(text, block_type, styles, func)
    /\ pc' = "ready"
    /\ UNCHANGED <<block, args, log, outcome, launcher, world>>

\* what a call with the arguments a leaves behind
Finish(a, res) ==
    /\ block' = res.self
    /\ args' = a
    /\ log' = res.log
    /\ outcome' = res.outcome
    /\ pc' = IF pc = "ready" THEN "done" ELSE "again"

\* block(*args, **kwargs)
Invoke ==
    /\ pc # "start"
    /\ wrapped = NoWrapped
    /\ \E a \in CallArgs : Finish(a, Block_call(block, a))
    /\ UNCHANGED <<wrapped, launcher, world>>

\* wrapped(*args, **kwargs)
InvokeWrapped ==
    /\ pc # "start"
    /\ wrapped # NoWrapped
    /\ \E a \in CallArgs, columns \in Columns :
          Finish(a, wrapper(wrapped, a, columns))
    /\ UNCHANGED <<wrapped, launcher, world>>

Next == Construct \/ Decorate \/ Invoke \/ InvokeWrapped

Spec == Init /\ [][Next]_vars

(***************************************************************************)
(* Rendering of plain strings: Blocks of the widths the documentation      *)
(* calls valid (4 and more), whose text is a sequence of strs over         *)
(* letters, ' ' and '-', constructed and then called any number of times.  *)
(***************************************************************************)
\* the longest str of a one-item text, and the largest width
MaxLine == 7
MaxCols == 5

LineAlphabet == {"a", " ", "-"}

\* the strs of up to n characters
LineStrs(n) == UNION {[1..k -> LineAlphabet] : k \in 0..n}

\* a Sequence[str]: no item, one str of up to MaxLine characters, or two
\* strs of up to two characters
LineTexts ==
    {<<>>} \cup {<<StrItem(s)>> : s \in LineStrs(MaxLine)}
           \cup {<<StrItem(s), StrItem(t)>> : s \in LineStrs(2), t \in LineStrs(2)}

LineWidths == 4..MaxCols

\* block = Block(text, width, block_type, func=func)
RenderConstruct ==
    /\ pc = "start"
    /\ \E text \in LineTexts, width \in LineWidths, block_type \in BlockTypes,
          func \in {"none", "fail"} :
          block' = Block_init(text, Some(width), block_type, None, func, width)
    /\ pc' = "ready"
    /\ UNCHANGED <<wrapped, args, log, outcome, launcher, world>>

\* block()
RenderInvoke ==
    /\ pc # "start"
    /\ Finish(NoArgs, Block_call(block, NoArgs))
    /\ UNCHANGED <<wrapped, launcher, world>>

RenderNext == RenderConstruct \/ RenderInvoke

RenderSpec == Init /\ [][RenderNext]_vars

(***************************************************************************)
(* base_app_launcher and fastapi_app_launcher: a launcher binds a socket   *)
(* when it is constructed, its setup methods and consul_register run       *)
(* inside Blocks, and app_run closes the socket and starts the server.     *)
(* The operating system, the Consul agent and the server are the           *)
(* environment: what they answer is chosen with each call.                 *)
(***************************************************************************)
\* How many methods of a launcher are called after its construction
MaxCalls == 2

DigitOf(c) == (CHOOSE d \in 1..10 : DigitChars[d] = c) - 1

\* str(n), as an f-string formats an int n >= 0
RECURSIVE str_int(_)
str_int(n) ==
    IF n < 10 THEN <<DigitChars[n + 1]>>
    ELSE str_int(n \div 10) \o <<DigitChars[(n % 10) + 1]>>

\* the value of a str of decimal digits, acc being the value of the digits
\* read so far
RECURSIVE DigitsValue(_, _)
DigitsValue(s, acc) ==
    IF s = <<>> THEN acc ELSE DigitsValue(Tail(s), 10 * acc + DigitOf(Head(s)))

\* repr(s) of a str without quotes or escapes
repr(s) == <<"'">> \o s \o <<"'">>

\* app_port: Optional[str | int]
IntPort(n) == [t |-> "int", n |-> n, s |-> <<>>]
StrPort(s) == [t |-> "str", n |-> 0, s |-> s]

\* `port` as a condition: None, 0 and '' are false
Truthy(port) ==
    /\ port # None
    /\ IF port[1].t = "int" THEN port[1].n # 0 ELSE port[1].s # <<>>

\* int(port) for an int, or for a str of digits and letters: a str that is
\* not a decimal number raises ValueError
int(port) ==
    IF port.t = "int" THEN Return(Some(port.n))
    ELSE IF port.s # <<>> /\ \A i \in 1..Len(port.s) : IsDigit(port.s[i])
         THEN Return(Some(DigitsValue(port.s, 0)))
         ELSE Raise("ValueError")

\* What the launcher does to the world: a method of it is called; bind, with
\* the port the socket is bound to; close, with the state the socket was
\* in; an HTTP PUT, with the status of the response (0: none, the request
\* raised); uvicorn.run, with the port it is given and the state of the
\* launcher's socket when it begins; subprocess.run of gunicorn, likewise
CallEv(name) == [ev |-> "call", what |-> name, port |-> 0, status |-> 0, sock |-> ""]
BindEv(port) == [ev |-> "bind", what |-> "", port |-> port, status |-> 0, sock |-> "open"]
CloseEv(was) == [ev |-> "close", what |-> "", port |-> 0, status |-> 0, sock |-> was]
PutEv(url, status) ==
    [ev |-> "put", what |-> url, port |-> 0, status |-> status, sock |-> ""]
RunEv(port, sock) ==
    [ev |-> "uvicorn.run", what |-> "", port |-> port, status |-> 0, sock |-> sock]
SubprocessEv(port, sock) ==
    [ev |-> "subprocess.run", what |-> "gunicorn", port |-> port, status |-> 0,
     sock |-> sock]

\* What a method of the launcher leaves behind: the launcher, the Block it
\* called last with the arguments and the log of that call, how the method
\* ends, and what it did to the world
Left(self, blk, a, lg, out, evs) ==
    [self |-> self, block |-> blk, args |-> a, log |-> lg, outcome |-> out,
     events |-> evs]

\* BaseAppLauncher.get_socket: it returns the tuple (sock, port) of the
\* socket, shown by its state, and the port it is bound to.  The operating
\* system binds the port asked for, or an ephemeral port when asked for
\* port 0; bind raises OSError when the port is in use.
get_socket(port, os) ==
    IF Truthy(port) /\ int(port[1]).kind = "raise"
    THEN [outcome |-> int(port[1]), events |-> <<>>]
    ELSE IF os.in_use
    THEN [outcome |-> Raise("OSError"), events |-> <<>>]
    ELSE IF Truthy(port) /\ int(port[1]).value[1] # 0
    THEN [outcome |-> Return(Some(<<"open", int(port[1]).value[1]>>)),
          events |-> <<BindEv(int(port[1]).value[1])>>]
    ELSE [outcome |-> Return(Some(<<"open", os.ephemeral>>)),
          events |-> <<BindEv(os.ephemeral)>>]

\* "App Launcher: Start setting up"
TxtStart ==
    <<"A", "p", "p", " ", "L", "a", "u", "n", "c", "h", "e", "r", ":", " ",
      "S", "t", "a", "r", "t", " ", "s", "e", "t", "t", "i", "n", "g", " ",
      "u", "p">>

\* "Registration in Consul"
TxtRegistration ==
    <<"R", "e", "g", "i", "s", "t", "r", "a", "t", "i", "o", "n", " ", "i",
      "n", " ", "C", "o", "n", "s", "u", "l">>

\* the default of consul_register_address
TxtRegisterAddress ==
    <<"h", "t", "t", "p", ":", "/", "/", "l", "o", "c", "a", "l", "h", "o",
      "s", "t", ":", "8", "5", "0", "0", "/", "v", "1", "/", "a", "g", "e",
      "n", "t", "/", "s", "e", "r", "v", "i", "c", "e", "/", "r", "e", "g",
      "i", "s", "t", "e", "r">>

\* "App Launcher: The setup is completed successfully"
TxtCompleted ==
    <<"A", "p", "p", " ", "L", "a", "u", "n", "c", "h", "e", "r", ":", " ",
      "T", "h", "e", " ", "s", "e", "t", "u", "p", " ", "i", "s", " ", "c",
      "o", "m", "p", "l", "e", "t", "e", "d", " ", "s", "u", "c", "c", "e",
      "s", "s", "f", "u", "l", "l", "y">>

\* "Uvicorn run"
TxtUvicornRun ==
    <<"U", "v", "i", "c", "o", "r", "n", " ", "r", "u", "n">>

\* "Added a synchronous health check route for Consul"
TxtHealthRoute ==
    <<"A", "d", "d", "e", "d", " ", "a", " ", "s", "y", "n", "c", "h", "r",
      "o", "n", "o", "u", "s", " ", "h", "e", "a", "l", "t", "h", " ", "c",
      "h", "e", "c", "k", " ", "r", "o", "u", "t", "e", " ", "f", "o", "r",
      " ", "C", "o", "n", "s", "u", "l">>

\* "Include router in app"
TxtIncludeRouter ==
    <<"I", "n", "c", "l", "u", "d", "e", " ", "r", "o", "u", "t", "e", "r",
      " ", "i", "n", " ", "a", "p", "p">>

\* "/health"
TxtHealth ==
    <<"/", "h", "e", "a", "l", "t", "h">>

\* "http://"
TxtHttp ==
    <<"h", "t", "t", "p", ":", "/", "/">>

\* one event e for every call of self.func the log records
RECURSIVE Sent(_, _)
Sent(lg, e) ==
    IF lg = <<>> THEN <<>>
    ELSE (IF Head(lg).ev = "func" THEN <<e>> ELSE <<>>) \o Sent(Tail(lg), e)

\* kwargs[name]
Kw(a, name) == (CHOOSE p \in a.kwargs : p[1] = name)[2]

\* the method ends as the call of its Block ends
LeftByBlock(self, a, res, evs) ==
    Left(self, res.self, a, res.log, res.outcome, evs)

\* BaseAppLauncher.__post_init__: the socket is bound, then the HEAD block
\* is printed
post_init_block(self, evs, columns) ==
    LeftByBlock(self, NoArgs,
        Block_call(Block_init(<<StrItem(TxtStart),
                                StrItem(self.host \o <<":">> \o str_int(self.port)
                                          \o <<"/">> \o self.service_name)>>,
                              None, "HEAD", None, "none", columns),
                   NoArgs),
        evs)

\* self.socket_, self.port = self.get_socket(self.app_port)
post_init_bound(self, bound, columns) ==
    IF bound.outcome.kind = "raise"
    THEN Left(NoLauncher, NoBlock, NoArgs, <<>>, bound.outcome, bound.events)
    ELSE post_init_block([self EXCEPT !.socket_ = bound.outcome.value[1][1],
                                      !.port = bound.outcome.value[1][2]],
                         bound.events, columns)

post_init(self, os, columns) ==
    post_init_bound(self, get_socket(self.app_port, os), columns)

\* BaseAppLauncher.socket_close: socket.close(), then return port
socket_close(self) ==
    [self |-> [self EXCEPT !.socket_ = "closed"],
     port |-> self.port,
     events |-> <<CloseEv(self.socket_)>>]

\* service_id = f"{self.service_name}:{self.port}"
service_id(self) == self.service_name \o <<":">> \o str_int(self.port)

\* http_ = f"http://{self.host}:{self.port}{check_path}"
http_(self, check_path) ==
    TxtHttp \o self.host \o <<":">> \o str_int(self.port) \o check_path

\* the text of the Block of consul_register
consul_text(self, check_path) ==
    <<StrItem(TxtRegistration),
      StrItem(TxtRegisterAddress),
      \* f"{service_id=}, {self.port=}, {self.host=}"
      StrItem(<<"s", "e", "r", "v", "i", "c", "e", "_", "i", "d", "=">>
                \o repr(service_id(self))
                \o <<",", " ", "s", "e", "l", "f", ".", "p", "o", "r", "t", "=">>
                \o str_int(self.port)
                \o <<",", " ", "s", "e", "l", "f", ".", "h", "o", "s", "t", "=">>
                \o repr(self.host)),
      \* f"{check_interval=}, {check_timeout=}", with the defaults '30s', '3s'
      StrItem(<<"c", "h", "e", "c", "k", "_", "i", "n", "t", "e", "r", "v", "a",
                "l", "=">>
                \o repr(<<"3", "0", "s">>)
                \o <<",", " ", "c", "h", "e", "c", "k", "_", "t", "i", "m", "e",
                     "o", "u", "t", "=">>
                \o repr(<<"3", "s">>)),
      \* f"check path: {http_}"
      StrItem(<<"c", "h", "e", "c", "k", " ", "p", "a", "t", "h", ":", " ">>
                \o http_(self, check_path))>>

\* the status of the response of a PUT, 0 when the request raises
StatusOf(res) == IF res.kind = "return" /\ res.value # None THEN res.value[1] ELSE 0

\* consul_registered, were the status of the response not looked at
consul_registered_unchecked(self, res, pass) ==
    IF res.outcome.kind = "raise"
    THEN LeftByBlock(self, NoArgs, res,
                     Sent(res.log, PutEv("register", StatusOf(res.outcome))))
    ELSE Left(self, res.self, NoArgs, res.log,
              IF Apply(pass, NoArgs).kind = "raise" THEN Apply(pass, NoArgs)
              ELSE Return(None),
              Sent(res.log, PutEv("register", StatusOf(res.outcome)))
                  \o <<PutEv("check/pass", StatusOf(Apply(pass, NoArgs)))>>)

\* consul_register after response = block(): an exception of the Block
\* propagates; a status other than 200 raises ConnectionError; after a
\* status of 200 the check-pass PUT is sent
consul_registered(self, res, pass) ==
    IF res.outcome.kind = "raise"
    THEN LeftByBlock(self, NoArgs, res,
                     Sent(res.log, PutEv("register", StatusOf(res.outcome))))
    ELSE IF res.outcome.value # Some(200)
    THEN Left(self, res.self, NoArgs, res.log, Raise("ConnectionError"),
              Sent(res.log, PutEv("register", StatusOf(res.outcome))))
    ELSE Left(self, res.self, NoArgs, res.log,
              IF Apply(pass, NoArgs).kind = "raise" THEN Apply(pass, NoArgs)
              ELSE Return(None),
              Sent(res.log, PutEv("register", StatusOf(res.outcome)))
                  \o <<PutEv("check/pass", StatusOf(Apply(pass, NoArgs)))>>)

\* consul_register once check_path is known: the Block whose func is
\* CallableWrapper(func=httpx.put, ...) is constructed and called
consul_register_at(self, check_path, put, pass, columns) ==
    consul_registered(self,
        Block_call(Block_init(consul_text(self, check_path), None, "BODY", None,
                              put, columns),
                   NoArgs),
        pass)

\* BaseAppLauncher.consul_register(check_path): `put` is how the
\* registration PUT ends, `pass` how the check-pass PUT ends.  health_path
\* is an attribute only once a method has defined it.
consul_register(self, check_path, put, pass, columns) ==
    IF check_path # None /\ check_path[1] # <<>>
    THEN consul_register_at(self, check_path[1], put, pass, columns)
    ELSE IF self.health_path = None
    THEN Left(self, NoBlock, NoArgs, <<>>, Raise("AttributeError"), <<>>)
    ELSE consul_register_at(self, self.health_path[1], put, pass, columns)

\* BaseFastapiAppLauncher.add_route(**kwargs): no Block is called, and
\* self.router.add_api_route(**kwargs) ends as `f` does
add_route(self, f) ==
    Left(self, NoBlock, NoArgs, <<>>, Apply(f, NoArgs), <<>>)

\* BaseFastapiAppLauncher.add_token_middleware(get_token), decorated
add_token_middleware(self, f, columns) ==
    LeftByBlock(self, [args |-> <<"self", "get_token">>, kwargs |-> {}],
        \* @block_decorator(["add token middleware"])
        wrapper(block_decorator(
                    <<StrItem(<<"a", "d", "d", " ", "t", "o", "k", "e", "n", " ",
                                "m", "i", "d", "d", "l", "e", "w", "a", "r", "e">>)>>,
                    "BODY", None, f),
                [args |-> <<"self", "get_token">>, kwargs |-> {}], columns),
        <<>>)

\* BaseFastapiAppLauncher.add_jaeger(), decorated
add_jaeger(self, f, columns) ==
    LeftByBlock(self, [args |-> <<"self">>, kwargs |-> {}],
        \* @block_decorator(["Connecting to Jaeger"])
        wrapper(block_decorator(
                    <<StrItem(<<"C", "o", "n", "n", "e", "c", "t", "i", "n", "g",
                                " ", "t", "o", " ", "J", "a", "e", "g", "e", "r">>)>>,
                    "BODY", None, f),
                [args |-> <<"self">>, kwargs |-> {}], columns),
        <<>>)

\* BaseFastapiAppLauncher.add_sync_consul_health_path(path), decorated:
\* self.health_path is set before the route is added
add_sync_consul_health_path(self, path, f, columns) ==
    LeftByBlock([self EXCEPT !.health_path =
                     IF path # None /\ path[1] # <<>> THEN path ELSE Some(TxtHealth)],
        [args |-> <<"self">>, kwargs |-> {<<"path", path>>}],
        wrapper(block_decorator(<<StrItem(TxtHealthRoute)>>, "BODY", None, f),
                [args |-> <<"self">>, kwargs |-> {<<"path", path>>}], columns),
        <<>>)

\* BaseFastapiAppLauncher.include_router(), decorated
include_router(self, f, columns) ==
    LeftByBlock(self, [args |-> <<"self">>, kwargs |-> {}],
        wrapper(block_decorator(<<StrItem(TxtIncludeRouter)>>, "BODY", None, f),
                [args |-> <<"self">>, kwargs |-> {}], columns),
        <<>>)

\* the keyword arguments app_run passes to AppStarter.uvicorn_run
uvicorn_args(self, port) ==
    [args |-> <<>>,
     kwargs |-> {<<"asgi_app", "app">>, <<"host", self.host>>, <<"port", port>>}]

\* the body of AppStarter.uvicorn_run, res being how the call of its Block
\* ends: uvicorn.run begins unless uvicorn cannot be imported
uvicorn_ran(self, a, srv, evs, res) ==
    LeftByBlock(self, a, res,
        evs \o (IF srv = "uvicorn_noimport" THEN <<>>
                ELSE Sent(res.log, RunEv(Kw(a, "port"), self.socket_))))

\* AppStarter.uvicorn_run, decorated
uvicorn_run(self, a, srv, evs, columns) ==
    uvicorn_ran(self, a, srv, evs,
        wrapper(block_decorator(<<StrItem(TxtCompleted), StrItem(TxtUvicornRun)>>,
                                "TAIL", None, srv),
                a, columns))

\* the body of AppStarter.gunicorn_run, res being how the call of its Block
\* ends: subprocess.run(command) begins
gunicorn_ran(self, a, res) ==
    LeftByBlock(self, a, res,
                Sent(res.log, SubprocessEv(Kw(a, "port"), self.socket_)))

\* AppStarter.gunicorn_run, decorated with the text
\* ["App Launcher: The setup is completed successfully", "Gunicorn run"]
gunicorn_run(self, a, srv, columns) ==
    gunicorn_ran(self, a,
        wrapper(block_decorator(
                    <<StrItem(TxtCompleted),
                      StrItem(<<"G", "u", "n", "i", "c", "o", "r", "n", " ", "r",
                                "u", "n">>)>>,
                    "TAIL", None, srv),
                a, columns))

\* app_run, were the socket left open
app_run_open(self, srv, columns) ==
    uvicorn_run(self, uvicorn_args(self, self.port), srv, <<>>, columns)

\* UvicornFastapiAppLauncher.app_run: the argument
\* port=self.socket_close(self.socket_, self.port) is evaluated, then
\* AppStarter.uvicorn_run is called
app_run(self, srv, columns) ==
    uvicorn_run(socket_close(self).self,
                uvicorn_args(self, socket_close(self).port),
                srv, socket_close(self).events, columns)

\* The launchers explored: one service name and host; no app_port, the
\* ports 0 and 8000 as ints, and '8001', '0' and 'x' as strs
TxtService == <<"s", "v", "c">>
TxtHost == <<"l", "o", "c", "a", "l", "h", "o", "s", "t">>

AppPorts ==
    {None, Some(IntPort(0)), Some(IntPort(8000)),
     Some(StrPort(<<"8", "0", "0", "1">>)), Some(StrPort(<<"0">>)),
     Some(StrPort(<<"x">>))}

\* what the operating system answers to bind: whether the port is in use,
\* and the ephemeral port it assigns when asked for port 0
OsAnswers == [in_use : BOOLEAN, ephemeral : {49152}]

\* shutil.get_terminal_size().columns of a process without a terminal: the
\* fallback
LauncherColumns == {80}

\* how a PUT of httpx ends: a response with a status, or ConnectError
PutFuncs == {"put_200", "put_201", "put_500", "put_error"}
\* how the check-pass PUT ends: its response is not looked at
PassFuncs == {"put_200", "put_error"}
\* how the body of a decorated setup method ends
SetupFuncs == {"setup", "setup_fail"}
\* how AppStarter.uvicorn_run ends: the server runs and stops, uvicorn.run
\* raises, or uvicorn cannot be imported
ServerFuncs == {"uvicorn", "uvicorn_oserror", "uvicorn_noimport"}

\* what the operating system answers to the bind of another socket: while
\* the launcher holds its socket open the launcher's port is in use, and
\* the ephemeral port assigned is another one
OsAnswersBeside(self, port) ==
    {os \in [in_use : BOOLEAN, ephemeral : {49153}] :
        (/\ self.socket_ = "open"
         /\ Truthy(port)
         /\ int(port[1]) = Return(Some(self.port))) => os.in_use}

\* check_path= and path=: None, or a str
TxtHc == <<"/", "h", "c">>
PathArgs == {None, Some(TxtHc)}

\* the dataclass fields before __post_init__ runs
NewLauncher(app_port) ==
    [NoLauncher EXCEPT !.service_name = TxtService, !.host = TxtHost,
                       !.app_port = app_port]

\* the methods called so far, the construction not counted
CallsMade == Cardinality({k \in 1..Len(world) : world[k].ev = "call"}) - 1

\* what a method of the launcher leaves behind; a method that calls no
\* Block leaves the Block, the arguments and the log of the last call
LaunchFinish(name, res) ==
    /\ launcher' = [res.self EXCEPT !.last = name]
    /\ world' = world \o <<CallEv(name)>> \o res.events
    /\ block' = IF res.block = NoBlock THEN block ELSE res.block
    /\ args' = IF res.block = NoBlock THEN args ELSE res.args
    /\ log' = IF res.block = NoBlock THEN log ELSE res.log
    /\ outcome' = res.outcome
    /\ pc' = CASE pc = "start" ->
                      IF res.outcome.kind = "raise" THEN "failed" ELSE "ready"
               [] pc = "ready" -> "done"
               [] OTHER -> "again"
    /\ UNCHANGED wrapped

\* launcher = UvicornFastapiAppLauncher(service_name=, host=, app_port=, ...)
LaunchConstruct ==
    /\ pc = "start"
    /\ \E app_port \in AppPorts, os \in OsAnswers, columns \in LauncherColumns :
          LaunchFinish("__post_init__",
                       post_init(NewLauncher(app_port), os, columns))

\* a method may be called on a launcher that was constructed
Callable == pc \in {"ready", "done", "again"} /\ CallsMade < MaxCalls

\* launcher.add_sync_consul_health_path(path)
LaunchHealthPath ==
    /\ Callable
    /\ \E path \in PathArgs, f \in SetupFuncs, columns \in LauncherColumns :
          LaunchFinish("add_sync_consul_health_path",
                       add_sync_consul_health_path(launcher, path, f, columns))

\* launcher.include_router()
LaunchIncludeRouter ==
    /\ Callable
    /\ \E f \in SetupFuncs, columns \in LauncherColumns :
          LaunchFinish("include_router", include_router(launcher, f, columns))

\* launcher.consul_register(check_path)
LaunchConsulRegister ==
    /\ Callable
    /\ \E check_path \in PathArgs, put \in PutFuncs, pass \in PassFuncs,
          columns \in LauncherColumns :
          \* one way for the check-pass PUT to end stands for all of them
          \* when the registration does not end with a status of 200
          /\ put # "put_200" => pass = "put_200"
          /\ LaunchFinish("consul_register",
                          consul_register(launcher, check_path, put, pass, columns))

\* launcher.app_run()
LaunchAppRun ==
    /\ Callable
    /\ \E srv \in ServerFuncs, columns \in LauncherColumns :
          LaunchFinish("app_run", app_run(launcher, srv, columns))

\* launcher.add_route(**kwargs)
LaunchAddRoute ==
    /\ Callable
    /\ \E f \in SetupFuncs : LaunchFinish("add_route", add_route(launcher, f))

\* launcher.add_token_middleware(get_token): the body returns, or starlette
\* is not installed
LaunchTokenMiddleware ==
    /\ Callable
    /\ \E f \in {"setup", "setup_noimport"}, columns \in LauncherColumns :
          LaunchFinish("add_token_middleware",
                       add_token_middleware(launcher, f, columns))

\* launcher.add_jaeger(): the body returns, or opentelemetry is not
\* installed
LaunchJaeger ==
    /\ Callable
    /\ \E f \in {"setup", "setup_noimport"}, columns \in LauncherColumns :
          LaunchFinish("add_jaeger", add_jaeger(launcher, f, columns))

\* launcher.socket_close(launcher.socket_, launcher.port)
LaunchSocketClose ==
    /\ Callable
    /\ LaunchFinish("socket_close",
                    Left(socket_close(launcher).self, NoBlock, NoArgs, <<>>,
                         Return(Some(socket_close(launcher).port)),
                         socket_close(launcher).events))

\* launcher.get_socket(port), called on its own: another socket is bound
\* and returned to the caller, and the launcher keeps its own
LaunchGetSocket ==
    /\ Callable
    /\ \E port \in AppPorts :
          \E os \in OsAnswersBeside(launcher, port) :
              LaunchFinish("get_socket",
                           Left(launcher, NoBlock, NoArgs, <<>>,
                                get_socket(port, os).outcome,
                                get_socket(port, os).events))

\* AppStarter.uvicorn_run(asgi_app=launcher.app, host=launcher.host,
\* port=launcher.port), called on its own
LaunchUvicornRun ==
    /\ Callable
    /\ \E srv \in ServerFuncs, columns \in LauncherColumns :
          LaunchFinish("uvicorn_run",
                       uvicorn_run(launcher, uvicorn_args(launcher, launcher.port),
                                   srv, <<>>, columns))

\* AppStarter.gunicorn_run(host=launcher.host, port=launcher.port,
\* app_path=), called on its own: the subprocess ends, or there is no
\* gunicorn executable
LaunchGunicornRun ==
    /\ Callable
    /\ \E srv \in {"gunicorn", "gunicorn_notfound"}, columns \in LauncherColumns :
          LaunchFinish("gunicorn_run",
                       gunicorn_run(launcher,
                                    [args |-> <<>>,
                                     kwargs |-> {<<"host", launcher.host>>,
                                                 <<"port", launcher.port>>,
                                                 <<"app_path", "main:app">>}],
                                    srv, columns))

LaunchNext ==
    \/ LaunchConstruct
    \/ LaunchHealthPath
    \/ LaunchIncludeRouter
    \/ LaunchAddRoute
    \/ LaunchTokenMiddleware
    \/ LaunchJaeger
    \/ LaunchConsulRegister
    \/ LaunchSocketClose
    \/ LaunchGetSocket
    \/ LaunchUvicornRun
    \/ LaunchGunicornRun
    \/ LaunchAppRun

LaunchSpec == Init /\ [][LaunchNext]_vars

(***************************************************************************)
(* What the properties below read off a state.                             *)
(***************************************************************************)
\* a call has been made, and log, args and outcome are those of the last one
Done == pc \in {"done", "again"}

\* the positions of the log at which self.func is called
FuncAt(l) == {k \in 1..Len(l) : l[k].ev = "func"}

\* the positions of the log at which the callable of the i-th item is called
ItemAt(l, i) == {k \in 1..Len(l) : l[k].ev = "item" /\ l[k].idx = i}

\* the positions of the log at which a line is printed
PrintAt(l) == {k \in 1..Len(l) : l[k].ev = "print"}

IsVisible(c) == c \notin Escapes

\* a printed line without its escape sequences
Visible(line) == SelectSeq(line, IsVisible)

\* what is visible of a border, of the success line and of a line of text
\* of a Block of width w
PlusBorder(w) == <<"+">> \o Repeat("-", w - 2) \o <<"+">>
BarBorder(w) == <<"|">> \o Repeat("-", w - 2) \o <<"|">>
SuccessRow(w) == <<"|">> \o center(success, w - 2) \o <<"|">>
TextRow(line, w) == <<"|">> \o center(line, w - 2) \o <<"|">>

\* the log at position k prints a line that shows as `row`
Shows(l, k, row) ==
    /\ k \in 1..Len(l)
    /\ l[k].ev = "print"
    /\ Visible(l[k].s) = row

\* the log at position k emits the cursor-up-two-lines sequence
CursorUpTwo(l, k) == k \in 1..Len(l) /\ l[k] = PrintEv(<<CUU, CUU>>)

\* every wrapped line of every item is printed at a position in lo..hi
AllTextPrinted(self, l, lo, hi) ==
    \A i \in 1..Len(self.text) :
        \A j \in 1..Len(Wrap(self.text[i].s, self.width)) :
            \E k \in lo..hi :
                Shows(l, k, TextRow(Wrap(self.text[i].s, self.width)[j], self.width))

\* the run is cut short before self.func is reached: textwrap.fill raises
\* on the first item, or the callable of an item raises
AbortsBeforeFunc(self) ==
    /\ self.text # <<>>
    /\ \/ self.width <= 0
       \/ \E i \in 1..Len(self.text) :
             /\ self.text[i].kind = "pair"
             /\ Apply(self.text[i].f, NoArgs).kind = "raise"
             /\ Wrap(self.text[i].s, self.width) # <<>>

(***************************************************************************)
(* C1.  For each block type: when self.func is called and returns, the     *)
(* call of the Block returns exactly that value; when it raises, exactly   *)
(* that exception reaches the caller.                                      *)
(***************************************************************************)
C1_ResultIsActionResult ==
    (Done /\ FuncAt(log) # {}) =>
        \A k \in FuncAt(log) : outcome = Apply(block.func, log[k].args)

C1_Witness ==
    /\ pc = "done"
    /\ wrapped = NoWrapped
    /\ block.block_type = "TAIL"
    /\ block.func = "add"
    /\ block.text # <<>>
    /\ args = [args |-> <<2>>, kwargs |-> {<<"b", 4>>}]
    /\ FuncAt(log) # {}
    /\ outcome = Return(Some(6))

(***************************************************************************)
(* C2.  As claimed: every call of a Block calls self.func exactly once.    *)
(* It fails when the callable of an item raises, or textwrap.fill does:    *)
(* the run ends before self.func is reached.                               *)
(***************************************************************************)
C2_Original == Done => Cardinality(FuncAt(log)) = 1

\* C2, amended: self.func is called exactly once by every call of a Block
\* that is not cut short before reaching it, not at all by one that is, and
\* never more than once.
C2_FuncOnceUnlessAborted ==
    Done => Cardinality(FuncAt(log)) = IF AbortsBeforeFunc(block) THEN 0 ELSE 1

C2_Witness ==
    /\ Done
    /\ block.width = 4
    /\ block.text # <<>>
    /\ block.text[1] = PairItem(<<"a", "a">>, "ok")
    /\ ItemAt(log, 1) # {}
    /\ Cardinality(FuncAt(log)) = 1

(***************************************************************************)
(* C3.  A BODY block whose self.func returns: the log ends with the        *)
(* closing border whose edges are the vertical-line glyph, the call of     *)
(* self.func, the cursor-up-two-lines sequence, the centered success line  *)
(* between two vertical lines, and the closing border again; every line of *)
(* the text is printed before the first closing border, and self.func is   *)
(* not called before it.                                                   *)
(***************************************************************************)
C3_BodyOrder ==
    (Done /\ block.block_type = "BODY" /\ outcome.kind = "return") =>
        LET n == Len(log)
        IN  /\ n >= 5
            /\ log[n - 4] = PrintEv(block.styles \o get_vline(block)
                                      \o Repeat("-", block.width - 2)
                                      \o get_vline(block))
            /\ Shows(log, n - 4, BarBorder(block.width))
            /\ log[n - 3] = FuncEv(args)
            /\ CursorUpTwo(log, n - 2)
            /\ Shows(log, n - 1, SuccessRow(block.width))
            /\ log[n] = log[n - 4]
            /\ FuncAt(log) = {n - 3}
            /\ AllTextPrinted(block, log, 1, n - 5)
            /\ \A k \in 1..(n - 5) : ~CursorUpTwo(log, k)

C3_Witness ==
    /\ Done
    /\ block.block_type = "BODY"
    /\ outcome.kind = "return"
    /\ block.width = 1
    /\ block.text = <<StrItem(<<"a", "a">>)>>
    /\ Len(log) = 7
    /\ log[3].ev = "print"
    /\ log[4].ev = "func"

(***************************************************************************)
(* C4.  A HEAD or TAIL block that reaches self.func: the top border, every *)
(* line of the text, the bottom border, then the call of self.func, and    *)
(* nothing after it.  A TAIL block first emits the cursor-up-two-lines     *)
(* sequence; a HEAD block never emits it.                                  *)
(***************************************************************************)
C4_HeadTailOrder ==
    (Done /\ block.block_type \in {"HEAD", "TAIL"} /\ FuncAt(log) # {}) =>
        LET n == Len(log)
            top == IF block.block_type = "TAIL" THEN 2 ELSE 1
        IN  /\ n >= top + 2
            /\ FuncAt(log) = {n}
            /\ log[n] = FuncEv(args)
            /\ Shows(log, top, PlusBorder(block.width))
            /\ Shows(log, n - 1, PlusBorder(block.width))
            /\ AllTextPrinted(block, log, top + 1, n - 2)
            /\ \A k \in 1..n : CursorUpTwo(log, k) <=>
                                  (block.block_type = "TAIL" /\ k = 1)

C4_Witness ==
    /\ Done
    /\ block.block_type = "TAIL"
    /\ block.width = 4
    /\ block.text = <<StrItem(<<"a", "a">>)>>
    /\ Len(log) = 5
    /\ CursorUpTwo(log, 1)
    /\ Shows(log, 3, <<"|", "a", "a", "|">>)
    /\ log[5].ev = "func"

(***************************************************************************)
(* C5.  Calling the function block_decorator(text, ...)(f) made calls f    *)
(* exactly once, with exactly the arguments of the call, after every line  *)
(* of the text is printed, and returns what f returns or raises what f     *)
(* raises; f(a, b) = a + b called with (2, 3) returns 5.                   *)
(***************************************************************************)
C5_DecoratorForwards ==
    (Done /\ wrapped # NoWrapped) =>
        /\ Cardinality(FuncAt(log)) = 1
        /\ \A k \in FuncAt(log) :
              /\ log[k] = FuncEv(args)
              /\ AllTextPrinted(block, log, 1, k - 1)
        /\ block.func = wrapped.func
        /\ block.text = wrapped.text
        /\ outcome = Apply(wrapped.func, args)
        /\ (wrapped.func = "add" /\ args = [args |-> <<2, 3>>, kwargs |-> {}])
              => outcome = Return(Some(5))

C5_Witness ==
    /\ Done
    /\ wrapped.func = "add"
    /\ wrapped.block_type = "BODY"
    /\ wrapped.text = <<StrItem(<<"a", "a">>)>>
    /\ block.width = 4
    /\ args = [args |-> <<2, 3>>, kwargs |-> {}]
    /\ outcome = Return(Some(5))

(***************************************************************************)
(* C6.  As claimed: a Block constructed with a width below 4 has the width *)
(* 4, so the width of a Block is at least 4.  Block.__init__ stores the    *)
(* width it is given.                                                      *)
(***************************************************************************)
C6_WidthClamped == (pc # "start" /\ wrapped = NoWrapped) => block.width >= 4

(***************************************************************************)
(* C7.  As claimed: in a call that runs to its end, the callable of every  *)
(* (str, callable) item is called exactly once, after every line of the    *)
(* item is printed and before its success line, however many lines the str *)
(* wraps to.  The call is in the loop over the wrapped lines: it is made   *)
(* once for each line.                                                     *)
(***************************************************************************)
C7_ItemActionOnce ==
    (Done /\ outcome.kind = "return") =>
        \A i \in 1..Len(block.text) :
            block.text[i].kind = "pair" =>
                /\ Cardinality(ItemAt(log, i)) = 1
                /\ \A k \in ItemAt(log, i) :
                      /\ \A j \in 1..Len(Wrap(block.text[i].s, block.width)) :
                            \E m \in 1..(k - 1) :
                                Shows(log, m,
                                      TextRow(Wrap(block.text[i].s, block.width)[j],
                                              block.width))
                      /\ log[k + 1] = PrintEv(<<CUU>>)
                      /\ Shows(log, k + 2, SuccessRow(block.width))

(***************************************************************************)
(* C8.  When self.func raises, its exception reaches the caller, nothing   *)
(* is printed after its call and what was printed before it stays: in a    *)
(* BODY block the log is the lines of the text, the first closing border   *)
(* and the call, the last event of the log, so that no cursor-up-two-lines *)
(* sequence, no success line and no second border follows it.              *)
(***************************************************************************)
C8_FailingActionAborts ==
    (Done /\ FuncAt(log) # {} /\ Apply(block.func, args).kind = "raise") =>
        LET n == Len(log)
        IN  /\ FuncAt(log) = {n}
            /\ outcome = Raise(Apply(block.func, args).err)
            /\ block.block_type = "BODY" =>
                  /\ Shows(log, n - 1, BarBorder(block.width))
                  /\ AllTextPrinted(block, log, 1, n - 2)
                  /\ \A k \in 1..n : ~CursorUpTwo(log, k)

C8_Witness ==
    /\ Done
    /\ block.block_type = "BODY"
    /\ block.func = "fail"
    /\ block.width = 4
    /\ Len(block.text) = 1
    /\ block.text[1].kind = "str"
    /\ Len(log) = 3
    /\ outcome = Raise("RuntimeError")

(***************************************************************************)
(* C9.  A call of a Block leaves the Block as it was: its text, width,     *)
(* block_type, styles and func; and a call with the same arguments as the  *)
(* call before it prints and calls the same, in the same order, and ends   *)
(* the same way.                                                           *)
(***************************************************************************)
C9_BlockUnchanged ==
    [][(pc # "start" /\ wrapped = NoWrapped) =>
          /\ block' = block
          /\ (Done /\ args' = args) => (log' = log /\ outcome' = outcome)]_vars

C9_Witness ==
    /\ pc = "again"
    /\ wrapped = NoWrapped
    /\ block.text # <<>>
    /\ block.width = 4
    /\ block.styles = <<RED>>
    /\ Len(log) > 3

(***************************************************************************)
(* C10.  As claimed: a Block whose text is empty prints nothing but border *)
(* lines, and calls self.func once.  A BODY block whose self.func returns  *)
(* prints the success line between its two closing borders.                *)
(***************************************************************************)
C10_Original ==
    (Done /\ block.text = <<>>) =>
        /\ Cardinality(FuncAt(log)) = 1
        /\ \A k \in PrintAt(log) :
              \/ Visible(log[k].s) = <<>>
              \/ Shows(log, k, PlusBorder(block.width))
              \/ Shows(log, k, BarBorder(block.width))

\* C10, amended: a Block whose text is empty prints no line of text: a HEAD
\* block prints the top and the bottom border, a TAIL block the
\* cursor-up-two-lines sequence and the two borders, a BODY block the closing
\* border and, when self.func returns, the cursor-up-two-lines sequence, the
\* success line and the closing border again; each calls self.func once.
C10_EmptyText ==
    (Done /\ block.text = <<>>) =>
        LET shown == [k \in 1..Len(log) |->
                         IF log[k].ev = "print" THEN Visible(log[k].s)
                         ELSE <<"func">>]
            plus == PlusBorder(block.width)
            bar == BarBorder(block.width)
        IN  /\ Cardinality(FuncAt(log)) = 1
            /\ block.block_type = "HEAD" => shown = <<plus, plus, <<"func">> >>
            /\ block.block_type = "TAIL" => shown = <<<<>>, plus, plus, <<"func">> >>
            /\ (block.block_type = "BODY" /\ outcome.kind = "return") =>
                  shown = <<bar, <<"func">>, <<>>, SuccessRow(block.width), bar>>
            /\ (block.block_type = "BODY" /\ outcome.kind = "raise") =>
                  shown = <<bar, <<"func">> >>

C10_Witness ==
    /\ Done
    /\ block.text = <<>>
    /\ block.block_type = "BODY"
    /\ block.width = 4
    /\ outcome.kind = "return"
    /\ Len(log) = 5

(***************************************************************************)
(* What C11, C12 and C14 read off a call of a Block of plain strings.      *)
(***************************************************************************)
\* the words of a str: its maximal runs of characters other than ' '
WordStarts(s) ==
    {i \in 1..Len(s) : ~IsSpace(s[i]) /\ (i = 1 \/ IsSpace(s[i - 1]))}

WordStop(s, i) ==
    CHOOSE j \in i..Len(s) :
        /\ \A k \in i..j : ~IsSpace(s[k])
        /\ j = Len(s) \/ IsSpace(s[j + 1])

Words(s) == {SubSeq(s, i, WordStop(s, i)) : i \in WordStarts(s)}

\* the str w occurs in the str line
Contains(line, w) ==
    \E o \in 0..(Len(line) - Len(w)) : SubSeq(line, o + 1, o + Len(w)) = w

\* the positions of the log at which the lines of the text are printed:
\* after the top border of a HEAD block, after the cursor-up sequence and
\* the top border of a TAIL block, from the start in a BODY block, and up to
\* the border that precedes the call of self.func at position f
BodyFirst(self) ==
    CASE self.block_type = "HEAD" -> 2
      [] self.block_type = "TAIL" -> 3
      [] OTHER -> 1

BodyRowsAt(self, f) == BodyFirst(self)..(f - 2)

\* a call of a Block of plain strings of a width of 4 or more has been made
Rendered ==
    /\ Done
    /\ wrapped = NoWrapped
    /\ block.width >= 4
    /\ \A i \in 1..Len(block.text) : block.text[i].kind = "str"

(***************************************************************************)
(* C11.  As claimed: for a text of plain strings and a width of 4 or more, *)
(* every word of the text (a maximal run of characters other than ' ',     *)
(* hyphens included) that is not longer than the width is printed whole in *)
(* one line of the body.  textwrap.fill breaks after the hyphen of a       *)
(* hyphenated word and around a run of hyphens between letters, so such a  *)
(* word is printed on two lines although it fits the width.                *)
(***************************************************************************)
C11_WordsUnbroken ==
    Rendered =>
        \A f \in FuncAt(log) :
            \A i \in 1..Len(block.text) :
                \A w \in Words(block.text[i].s) :
                    Len(w) <= block.width =>
                        \E k \in BodyRowsAt(block, f) :
                            /\ log[k].ev = "print"
                            /\ Contains(Visible(log[k].s), w)

(***************************************************************************)
(* C12.  For a width w of 4 or more, every border a Block prints shows     *)
(* exactly w characters: an edge character ('+', or '|' in a BODY block),  *)
(* w - 2 dashes and the edge character again; the call raises nothing but  *)
(* what self.func raises, and at the width 4 the border of a HEAD or TAIL  *)
(* block is "+--+".                                                        *)
(***************************************************************************)
C12_BorderWidth ==
    Rendered =>
        /\ FuncAt(log) # {}
        /\ outcome = Apply(block.func, args)
        /\ \A f \in FuncAt(log) :
              LET w == block.width
                  edge == IF block.block_type = "BODY" THEN "|" ELSE "+"
                  borders == {f - 1} \cup
                             (IF block.block_type = "BODY"
                              THEN IF outcome.kind = "return" THEN {Len(log)} ELSE {}
                              ELSE {BodyFirst(block) - 1})
              IN  \A k \in borders :
                      LET row == Visible(log[k].s)
                      IN  /\ log[k].ev = "print"
                          /\ Len(row) = w
                          /\ row[1] = edge
                          /\ row[w] = edge
                          /\ \A j \in 2..(w - 1) : row[j] = "-"
                          /\ (w = 4 /\ block.block_type # "BODY")
                                => row = <<"+", "-", "-", "+">>

C12_Witness ==
    /\ Rendered
    /\ block.width = 4
    /\ block.block_type = "HEAD"
    /\ block.text = <<StrItem(<<"a", "-", "a">>)>>
    /\ log[1] = PrintEv(<<BRIGHT, "+", "-", "-", "+">>)
    /\ log[3] = log[1]
    /\ outcome = Return(None)

(***************************************************************************)
(* C14.  As claimed: for a width of 4 or more and a text of plain strings, *)
(* every line of the body that is printed shows exactly `width`            *)
(* characters, as the borders do.  The text is wrapped to `width` columns  *)
(* and centered in `width - 2`: a wrapped line of more than width - 2      *)
(* characters is printed wider than the borders.                           *)
(***************************************************************************)
C14_RowWidth ==
    Rendered =>
        \A f \in FuncAt(log) :
            \A k \in BodyRowsAt(block, f) :
                /\ log[k].ev = "print"
                /\ Len(Visible(log[k].s)) = block.width

(***************************************************************************)
(* What C13 and C15 read off the life of a launcher.                       *)
(***************************************************************************)
\* the launcher was constructed: __post_init__ did not raise
Constructed == pc \in {"ready", "done", "again"}

\* the elements of a sequence
Range(seq) == {seq[k] : k \in 1..Len(seq)}

\* the positions of the world at which an event of the kind ev happens
WorldAt(ev) == {k \in 1..Len(world) : world[k].ev = ev}

\* the position at which the method called last was called
LastCall == CHOOSE k \in WorldAt("call") : \A j \in WorldAt("call") : j <= k

\* the positions at which the method called last sent a PUT to url
PutAt(url) == {k \in WorldAt("put") : k > LastCall /\ world[k].what = url}

\* consul_register is the method called last
AfterConsulRegister == Constructed /\ launcher.last = "consul_register"

(***************************************************************************)
(* C13.  A call of consul_register sends at most one registration PUT.     *)
(* When its response has a status other than 200 the call raises           *)
(* ConnectionError and sends no check-pass PUT; when the request itself    *)
(* raises, that exception ends the call and no check-pass PUT is sent.     *)
(* The check-pass PUT is sent at most once, and only after a registration  *)
(* response of status 200.                                                 *)
(***************************************************************************)
C13_RegisterChecked ==
    AfterConsulRegister =>
        /\ Cardinality(PutAt("register")) <= 1
        /\ Cardinality(PutAt("check/pass")) <= 1
        /\ \A k \in PutAt("register") :
              /\ world[k].status \notin {0, 200} =>
                    /\ outcome = Raise("ConnectionError")
                    /\ PutAt("check/pass") = {}
              /\ world[k].status = 0 =>
                    /\ outcome.kind = "raise"
                    /\ outcome.err # "ConnectionError"
                    /\ PutAt("check/pass") = {}
              /\ world[k].status = 200 => PutAt("check/pass") # {}
        /\ \A p \in PutAt("check/pass") :
              \E k \in PutAt("register") : k < p /\ world[k].status = 200

C13_Witness ==
    /\ AfterConsulRegister
    /\ launcher.health_path = Some(TxtHealth)
    /\ \E k \in PutAt("register") : world[k].status = 201
    /\ PutAt("check/pass") = {}
    /\ outcome = Raise("ConnectionError")
    /\ block.block_type = "BODY"
    /\ block.func = "put_201"

\* the setup steps of a launcher: the methods that prepare the application
SetupMethods ==
    {"add_route", "add_token_middleware", "add_jaeger",
     "add_sync_consul_health_path", "include_router", "consul_register"}

\* the position of the call during which the event at position k happens
CallOf(k) == CHOOSE c \in WorldAt("call") :
                 c <= k /\ \A j \in WorldAt("call") : j <= k => j <= c

\* the positions of the calls of app_run
AppRunAt == {c \in WorldAt("call") : world[c].what = "app_run"}

(***************************************************************************)
(* C15.  A launcher that was constructed bound its socket in               *)
(* __post_init__, once, and self.port is the port bound; any other bind is *)
(* that of another socket, by a call of get_socket on its own.  The socket *)
(* of the launcher is open until close is called on it, and no setup step  *)
(* and no server started on its own calls close: after construction and    *)
(* setup steps alone the socket is open.  Every call of app_run calls      *)
(* close on the socket first and once; the socket goes from open to closed *)
(* at most once.  When the uvicorn.run of a call of app_run begins, the    *)
(* close is the event just before it, the socket is closed, and the port   *)
(* it is given is the port bound at construction.                          *)
(***************************************************************************)
C15_SocketClosedBeforeRun ==
    Constructed =>
        /\ world[1] = CallEv("__post_init__")
        /\ world[2] = BindEv(launcher.port)
        /\ \A k \in WorldAt("bind") :
              k = 2 \/ world[CallOf(k)].what = "get_socket"
        /\ launcher.socket_ \in {"open", "closed"}
        /\ launcher.socket_ = "open" <=> WorldAt("close") = {}
        /\ \A k \in WorldAt("close") :
              world[CallOf(k)].what \in {"app_run", "socket_close"}
        /\ (\A c \in WorldAt("call") : c = 1 \/ world[c].what \in SetupMethods)
              => launcher.socket_ = "open"
        /\ Cardinality({k \in WorldAt("close") : world[k].sock = "open"}) <= 1
        /\ \A c \in AppRunAt :
              /\ {k \in WorldAt("close") : CallOf(k) = c} = {c + 1}
              /\ \A k \in WorldAt("uvicorn.run") :
                    CallOf(k) = c =>
                        /\ k = c + 2
                        /\ world[k].sock = "closed"
                        /\ world[k].port = world[2].port
        /\ launcher.last = "app_run" =>
              /\ block.func \in ServerFuncs
              /\ \A f \in FuncAt(log) : Kw(log[f].args, "port") = world[2].port

C15_Witness ==
    /\ Constructed
    /\ launcher.app_port = Some(StrPort(<<"8", "0", "0", "1">>))
    /\ launcher.last = "app_run"
    /\ launcher.socket_ = "closed"
    /\ CallEv("add_sync_consul_health_path") \in Range(world)
    /\ world[Len(world)] = RunEv(8001, "closed")
    /\ world[Len(world) - 1] = CloseEv("open")
    /\ outcome = Return(None)

=============================================================================
